---- MODULE Spec2Model ----
(***************************************************************************)
(* Model of mmpy_tools/MySQL.py: the MySQL wrapper class.  Strings are     *)
(* sequences of one-character strings, so that the statement text each     *)
(* method builds (f-strings, str.replace, str.split, str.join, slicing) is *)
(* computed character by character as the Python code computes it.  The    *)
(* database server is the environment: it answers every connect, execute   *)
(* and commit with success or with an exception.                           *)
(***************************************************************************)
EXTENDS Integers, Sequences, FiniteSets, TLC

\* ---------------------------------------------------------------- bounds
MaxConns == 1
MaxDefs == 2
MaxRows == 2
MaxPieces == 3
MaxIds == 2

\* ------------------------------------------------------- Python strings
\* the backtick character (the one character not written as itself)
Backtick == "BACKTICK"

StartsWith(s, p) == Len(s) >= Len(p) /\ SubSeq(s, 1, Len(p)) = p

\* str.replace(old, new): leftmost, non-overlapping occurrences of old
RECURSIVE Replace(_, _, _)
Replace(s, old, new) ==
    IF s = <<>> THEN <<>>
    ELSE IF StartsWith(s, old)
         THEN new \o Replace(SubSeq(s, Len(old) + 1, Len(s)), old, new)
         ELSE <<s[1]>> \o Replace(Tail(s), old, new)

\* str.split(c) for a one-character separator c
RECURSIVE Split(_, _)
Split(s, c) ==
    IF \A i \in 1..Len(s) : s[i] # c THEN <<s>>
    ELSE LET i == CHOOSE j \in 1..Len(s) :
                      s[j] = c /\ \A k \in 1..(j - 1) : s[k] # c
         IN  <<SubSeq(s, 1, i - 1)>> \o Split(SubSeq(s, i + 1, Len(s)), c)

\* sep.join(parts)
RECURSIVE Join(_, _)
Join(sep, parts) ==
    IF parts = <<>> THEN <<>>
    ELSE IF Len(parts) = 1 THEN parts[1]
    ELSE parts[1] \o sep \o Join(sep, Tail(parts))

\* s[0:-1]
DropLast(s) == SubSeq(s, 1, Len(s) - 1)

Digit(d) == <<"0", "1", "2", "3", "4", "5", "6", "7", "8", "9">>[d + 1]

RECURSIVE Decimal(_)
Decimal(n) ==
    IF n < 0 THEN <<"-">> \o Decimal(0 - n)
    ELSE IF n < 10 THEN <<Digit(n)>>
    ELSE Decimal(n \div 10) \o <<Digit(n % 10)>>

\* -------------------------------------------------------- Python values
PyStr(s) == [kind |-> "str", s |-> s, n |-> 0, items |-> <<>>]
PyInt(n) == [kind |-> "int", s |-> <<>>, n |-> n, items |-> <<>>]
PyNone == [kind |-> "None", s |-> <<>>, n |-> 0, items |-> <<>>]
PyNaN == [kind |-> "nan", s |-> <<>>, n |-> 0, items |-> <<>>]
PyList(xs) == [kind |-> "list", s |-> <<>>, n |-> 0, items |-> xs]

\* f'{v}' for a scalar v
Format(v) ==
    CASE v.kind = "str" -> v.s
      [] v.kind = "int" -> Decimal(v.n)
      [] v.kind = "None" -> <<"N", "o", "n", "e">>
      [] v.kind = "nan" -> <<"n", "a", "n">>

\* ------------------------------------------------- the database server
Ev(kind, sql, ok) == [ev |-> kind, sql |-> sql, ok |-> ok]

Range(f) == {f[i] : i \in DOMAIN f}

\* with self.engine.connect() as conn: execute each of stmts, then commit
\* (when commits).  fault = 0: the server accepts everything; 1: connect()
\* raises; 1 + i: the i-th execute raises; Len(stmts) + 2: commit raises.
\* Leaving the with block closes the connection, also on an exception.
Scope(stmts, commits, fault) ==
    LET n == Len(stmts)
        exec(i) == Ev("execute", stmts[i], TRUE)
    IN  IF fault = 1
        THEN [trace |-> <<Ev("connect", <<>>, FALSE)>>, raised |-> TRUE]
        ELSE IF fault \in 2..(n + 1)
        THEN [trace |-> <<Ev("connect", <<>>, TRUE)>>
                        \o [i \in 1..(fault - 2) |-> exec(i)]
                        \o <<Ev("execute", stmts[fault - 1], FALSE),
                             Ev("close", <<>>, TRUE)>>,
              raised |-> TRUE]
        ELSE IF commits /\ fault = n + 2
        THEN [trace |-> <<Ev("connect", <<>>, TRUE)>>
                        \o [i \in 1..n |-> exec(i)]
                        \o <<Ev("commit", <<>>, FALSE), Ev("close", <<>>, TRUE)>>,
              raised |-> TRUE]
        ELSE [trace |-> <<Ev("connect", <<>>, TRUE)>>
                        \o [i \in 1..n |-> exec(i)]
                        \o (IF commits THEN <<Ev("commit", <<>>, TRUE)>> ELSE <<>>)
                        \o <<Ev("close", <<>>, TRUE)>>,
              raised |-> FALSE]

\* number of server interactions of a scope: the fault positions are 1..ScopeSteps
ScopeSteps(n, commits) == n + (IF commits THEN 2 ELSE 1)

\* --------------------------------------------------------- input domains
DbNames == {<<>>, <<"d", "b">>}
HostArgs == {<<>>, <<"h">>}
UserArgs == {<<>>, <<"u">>}
PasswordArgs == {<<>>, <<"p", "w">>}

\* os.environ: a variable is unset (None) or holds a non-empty string
Envs ==
    [DB_HOST : {PyNone, PyStr(<<"h">>)},
     DB_USER : {PyNone, PyStr(<<"u">>)},
     DB_PASSWORD : {PyNone, PyStr(<<"p", "w">>)}]

\* the server: one reachable host, the accounts it accepts, its schemas
ServerHosts == {<<"h">>}
ServerAccounts == {<<<<"r", "o", "o", "t">>, <<"p", "w">>>>}

Tables == {<<"t">>, <<"f", "i", "l", "e", "s">>}
Columns == {<<"i", "d">>, <<"n", "a", "m", "e">>}
Conditions == {<<Backtick, "i", "d", Backtick, " ", "=", " ", "'", "1", "0", "'">>, <<Backtick, "n", "a", "m", "e", Backtick, " ", "=", " ", "'", "a", "'", " ", "O", "R", " ", "1">>}
Queries == {<<"S", "E", "L", "E", "C", "T", " ", "1">>, <<"U", "P", "D", "A", "T", "E", " ", Backtick, "t", Backtick, " ", "S", "E", "T", " ", Backtick, "n", "a", "m", "e", Backtick, " ", "=", " ", "'", "x", "'", ";">>}
NewValues == {<<"n", "e", "w", ".", "t", "x", "t">>, <<"i", "t", "'", "s">>}

\* dict items of a table definition, in insertion order, keys distinct
DefItems ==
    {<<<<"i", "d">>, <<"i", "n", "t", "(", "1", "1", ")", " ", "N", "O", "T", " ", "N", "U", "L", "L">>>>,
     <<<<"n", "a", "m", "e">>, <<"v", "a", "r", "c", "h", "a", "r", "(", "1", "0", ")">>>>,
     <<<<"p", "r", "i", "c", "e">>, <<"d", "e", "c", "i", "m", "a", "l", "(", "1", "0", ",", "2", ")">>>>}

TableDefs ==
    UNION {{d \in [1..n -> DefItems] :
               \A i, j \in 1..n : d[i][1] = d[j][1] => i = j} : n \in 0..MaxDefs}

\* DataFrame columns and the cell values each may hold
FrameColumns == {<<<<"i", "d">>>>, <<<<"i", "d">>, <<"n", "a", "m", "e">>>>}

CellValues(col) ==
    IF col = <<"i", "d">>
    THEN {PyStr(<<"7">>), PyNaN}
    ELSE {PyStr(<<"i", "t", "'", "s">>), PyStr(<<"x", "'", "n", "a", "n">>), PyNone}

FrameRows(cols) ==
    {r \in [1..Len(cols) -> UNION {CellValues(c) : c \in Range(cols)}] :
        \A i \in 1..Len(cols) : r[i] \in CellValues(cols[i])}

DataFrames ==
    UNION {{[columns |-> cols, rows |-> rows] : rows \in [1..n -> FrameRows(cols)]} :
              <<cols, n>> \in FrameColumns \X (0..MaxRows)}

\* contents of an SQL file: concatenations of these pieces
FilePieces ==
    {<<"I", "N", "S", "E", "R", "T", " ", "1">>, <<"a", "b", "c", "d">>, <<"a", "b", "\n", "c", "d", "\t", "e">>, <<";">>, <<"\n", "\n">>}

RECURSIVE Concat(_)
Concat(parts) == IF parts = <<>> THEN <<>> ELSE parts[1] \o Concat(Tail(parts))

FileContents ==
    {Concat(p) : p \in UNION {[1..n -> FilePieces] : n \in 0..MaxPieces}}

TwoStatementFile == <<"I", "N", "S", "E", "R", "T", " ", "I", "N", "T", "O", " ", "t", " ", "V", "A", "L", "U", "E", "S", " ", "(", "1", ")", ";", "\n", "\n", "I", "N", "S", "E", "R", "T", " ", "I", "N", "T", "O", " ", "t", " ", "V", "A", "L", "U", "E", "S", " ", "(", "2", ")", ";">>

Files ==
    {[exists |-> FALSE, content |-> <<>>]}
        \cup {[exists |-> TRUE, content |-> c] :
                 c \in FileContents \cup {TwoStatementFile}}

IdScalars == {PyInt(10), PyInt(2), PyStr(<<"a", "b">>)}

IdValues ==
    IdScalars \cup {PyList(xs) : xs \in UNION {[1..k -> IdScalars] : k \in 0..MaxIds}}

\* ------------------------------------------------------------ the client
NoObject == [made |-> FALSE, engine |-> <<>>, has_dbname |-> FALSE, dbname |-> <<>>]

\* f"mysql+pymysql://{dbuser}:{dbpassword}@{dbhost}/{dbname}"
EngineUrl(dbuser, dbpassword, dbhost, dbname) ==
    <<"m", "y", "s", "q", "l", "+", "p", "y", "m", "y", "s", "q", "l", ":", "/", "/">> \o Format(dbuser) \o <<":">> \o Format(dbpassword)
        \o <<"@">> \o Format(dbhost) \o <<"/">> \o dbname

\* the server's answer to the first connect of an engine
Accepts(url) ==
    \E h \in ServerHosts, a \in ServerAccounts, d \in DbNames :
        url = EngineUrl(PyStr(a[1]), PyStr(a[2]), PyStr(h), d)

\* os.environ.get(key) and os.environ.get(key, default)
EnvGet(value, default) == IF value = PyNone THEN default ELSE value

\* a variant of __init__ that assigns self.dbname before the connection check
init_stores_dbname_first(dbname, dbhost, dbuser, dbpassword, env) ==
    LET host == IF dbhost = <<>> THEN EnvGet(env.DB_HOST, PyNone) ELSE PyStr(dbhost)
        password == IF dbpassword = <<>> THEN EnvGet(env.DB_PASSWORD, PyNone)
                    ELSE PyStr(dbpassword)
        user == IF dbuser = <<>> THEN EnvGet(env.DB_USER, PyStr(<<"r", "o", "o", "t">>))
                ELSE PyStr(dbuser)
        url == EngineUrl(user, password, host, dbname)
    IN  [self |-> [made |-> TRUE, engine |-> url,
                   has_dbname |-> TRUE, dbname |-> dbname],
         trace |-> <<Ev("connect", url, Accepts(url))>>,
         raised |-> ~Accepts(url)]

\* MySQL.__init__: the attributes set on self, the server interactions, and
\* whether the constructor raised
init(dbname, dbhost, dbuser, dbpassword, env) ==
    LET host == IF dbhost = <<>> THEN EnvGet(env.DB_HOST, PyNone) ELSE PyStr(dbhost)
        password == IF dbpassword = <<>> THEN EnvGet(env.DB_PASSWORD, PyNone)
                    ELSE PyStr(dbpassword)
        user == IF dbuser = <<>> THEN EnvGet(env.DB_USER, PyStr(<<"r", "o", "o", "t">>))
                ELSE PyStr(dbuser)
        url == EngineUrl(user, password, host, dbname)
    IN  IF Accepts(url)
        THEN [self |-> [made |-> TRUE, engine |-> url,
                        has_dbname |-> TRUE, dbname |-> dbname],
              trace |-> <<Ev("connect", url, TRUE)>>,
              raised |-> FALSE]
        ELSE [self |-> [made |-> TRUE, engine |-> url,
                        has_dbname |-> FALSE, dbname |-> <<>>],
              trace |-> <<Ev("connect", url, FALSE)>>,
              raised |-> TRUE]

DropDatabaseSql(dbname) == <<"D", "R", "O", "P", " ", "D", "A", "T", "A", "B", "A", "S", "E", " ", Backtick>> \o dbname \o <<Backtick, ";">>
CreateDatabaseSql(dbname) == <<"C", "R", "E", "A", "T", "E", " ", "D", "A", "T", "A", "B", "A", "S", "E", " ", Backtick>> \o dbname \o <<Backtick, ";">>

\* a variant of BestEffortThen without the try/except: a failure of the first
\* scope ends the call
BestEffortThenPropagates(first, second) ==
    IF first.raised THEN first
    ELSE [trace |-> first.trace \o second.trace, raised |-> second.raised]

\* A try: ... except: pass block around a scope, followed by a second scope
BestEffortThen(first, second) ==
    [trace |-> first.trace \o second.trace, raised |-> second.raised]

\* MySQL.create_db
create_db(dbname, drop, dropFault, createFault) ==
    LET create == Scope(<<CreateDatabaseSql(dbname)>>, TRUE, createFault)
    IN  IF drop
        THEN BestEffortThen(Scope(<<DropDatabaseSql(dbname)>>, TRUE, dropFault), create)
        ELSE create

DropTableSql(table_name) == <<"D", "R", "O", "P", " ", "T", "A", "B", "L", "E", " ", "I", "F", " ", "E", "X", "I", "S", "T", "S", " ", Backtick>> \o table_name \o <<Backtick, ";">>

\* the loop of create_table: sql += f"{tablename} {definition},"
RECURSIVE ColumnItems(_)
ColumnItems(table_def) ==
    IF table_def = <<>> THEN <<>>
    ELSE table_def[1][1] \o <<" ">> \o table_def[1][2] \o <<",">>
             \o ColumnItems(Tail(table_def))

CreateTableSql(table_name, table_def) ==
    DropLast(<<"C", "R", "E", "A", "T", "E", " ", "T", "A", "B", "L", "E", " ">> \o table_name \o <<" ", "(">> \o ColumnItems(table_def))
        \o <<")", ";">>

\* MySQL.create_table
create_table(table_name, table_def, drop, dropFault, createFault) ==
    LET create == Scope(<<CreateTableSql(table_name, table_def)>>, TRUE, createFault)
    IN  IF drop
        THEN BestEffortThen(Scope(<<DropTableSql(table_name)>>, TRUE, dropFault), create)
        ELSE create

\* MySQL.execute_sql
execute_sql(query, fault) == Scope(<<query>>, TRUE, fault)

StripCommand(command) == Replace(Replace(command, <<"\n">>, <<>>), <<"\t">>, <<>>)

\* a variant of IsExecuted with the length test off by one
IsExecutedOffByOne(command) == Len(command) > 5

\* if len(command) > 4
IsExecuted(command) == Len(command) > 4

\* the commands execute_sql_file passes to conn.execute, in order
FileCommands(sql) ==
    LET commands == Split(sql, ";")
    IN  SelectSeq([i \in 1..Len(commands) |-> StripCommand(commands[i])], IsExecuted)

\* MySQL.execute_sql_file
execute_sql_file(file, fault) ==
    IF ~file.exists THEN [trace |-> <<>>, raised |-> TRUE]
    ELSE Scope(FileCommands(file.content), TRUE, fault)

\* whether the result of a statement has rows to fetch: a SELECT has, an
\* UPDATE, INSERT or DELETE has not
ReturnsRows(sql) == StartsWith(sql, <<"S", "E", "L", "E", "C", "T">>)

\* MySQL.query_sql: the with block (no commit), then query.fetchall() on the
\* result, after the connection has been closed.  fault 1: connect raises;
\* 2: execute raises; 3: fetchall raises.  fetchall also raises whenever the
\* statement returns no rows.
query_sql(sql, fault) ==
    LET s == Scope(<<sql>>, FALSE, IF fault \in 1..2 THEN fault ELSE 0)
        fetched == ReturnsRows(sql) /\ fault # 3
    IN  IF s.raised THEN s
        ELSE [trace |-> s.trace \o <<Ev("fetchall", <<>>, fetched)>>,
              raised |-> ~fetched]

\* MySQL.query_table
query_table(table_name, fault) ==
    query_sql(<<"S", "E", "L", "E", "C", "T", " ", "*", " ", "f", "r", "o", "m", " ", Backtick>> \o table_name \o <<Backtick>>, fault)

TruncateSql(table) == <<"T", "R", "U", "N", "C", "A", "T", "E", " ", "T", "A", "B", "L", "E", " ", Backtick>> \o table \o <<Backtick, ";">>

\* MySQL.truncate_table
truncate_table(table, fault) == Scope(<<TruncateSql(table)>>, TRUE, fault)

\* df_insert.replace("'", "''", regex=True): string cells only
EscapeCell(v) == IF v.kind = "str" THEN PyStr(Replace(v.s, <<"'">>, <<"'", "'">>)) ELSE v

\* the cols string: the column names, each between backticks, in parentheses
ColsClause(columns) == <<"(", Backtick>> \o Join(<<Backtick, ",", Backtick>>, columns) \o <<Backtick, ")">>

\* "','".join([f'{i}' for i in row])
RowValues(row) == Join(<<"'", ",", "'">>, [i \in 1..Len(row) |-> Format(row[i])])

InsertQuery(table_name, columns, row) ==
    <<"I", "N", "S", "E", "R", "T", " ", "I", "N", "T", "O", " ", Backtick>> \o table_name \o <<Backtick, " ">> \o ColsClause(columns)
        \o <<" ", "V", "A", "L", "U", "E", "S", " ", "(", "'">> \o RowValues(row) \o <<"'", ")", ";">>

\* query.replace("'nan'", "NULL").replace("'None'", "NULL")
NullSentinels(query) ==
    Replace(Replace(query, <<"'", "n", "a", "n", "'">>, <<"N", "U", "L", "L">>), <<"'", "N", "o", "n", "e", "'">>, <<"N", "U", "L", "L">>)

\* the statement insert_table executes for one row of the data frame
InsertStatement(table_name, columns, row) ==
    NullSentinels(InsertQuery(table_name, columns,
                              [i \in 1..Len(row) |-> EscapeCell(row[i])]))

InsertStatements(df_insert, table_name) ==
    [i \in 1..Len(df_insert.rows) |->
        InsertStatement(table_name, df_insert.columns, df_insert.rows[i])]

\* a variant of insert_table that commits inside the loop, after every row
insert_table_commit_per_row(df_insert, table_name, truncate, fault) ==
    LET stmts == InsertStatements(df_insert, table_name)
        step(i) == <<Ev("execute", stmts[i], TRUE), Ev("commit", <<>>, TRUE)>>
    IN  [trace |-> <<Ev("connect", <<>>, TRUE)>>
                   \o Concat([i \in 1..Len(stmts) |-> step(i)])
                   \o <<Ev("close", <<>>, TRUE)>>,
         raised |-> FALSE]

\* MySQL.insert_table; faults 1..3 fall into truncate_table, later ones into
\* the insert scope
insert_table(df_insert, table_name, truncate, fault) ==
    LET stmts == InsertStatements(df_insert, table_name)
    IN  IF truncate
        THEN LET t == truncate_table(table_name, IF fault \in 1..3 THEN fault ELSE 0)
             IN  IF t.raised THEN t
                 ELSE LET ins == Scope(stmts, TRUE, IF fault > 3 THEN fault - 3 ELSE 0)
                      IN  [trace |-> t.trace \o ins.trace, raised |-> ins.raised]
        ELSE Scope(stmts, TRUE, fault)

DeleteSql(condition, table) ==
    <<"D", "E", "L", "E", "T", "E", " ", "F", "R", "O", "M", " ", Backtick>> \o table \o <<Backtick, " ", "W", "H", "E", "R", "E", " ">> \o condition

\* MySQL.delete_where
delete_where(condition, table, fault) == Scope(<<DeleteSql(condition, table)>>, TRUE, fault)

\* isinstance(v, Iterable)
IsIterable(v) == v.kind \in {"str", "list"}

\* a variant of IdList without the isinstance(id_values, str) test: a string
\* is looped over character by character
IdListIteratesStrings(id_values) ==
    IF ~IsIterable(id_values) THEN <<id_values>>
    ELSE IF id_values.kind = "str"
         THEN [i \in 1..Len(id_values.s) |-> PyStr(<<id_values.s[i]>>)]
         ELSE id_values.items

\* the list delete_id loops over
IdList(id_values) ==
    IF ~IsIterable(id_values) \/ id_values.kind = "str"
    THEN <<id_values>>
    ELSE id_values.items

IdCondition(id_column, id_value) ==
    <<"(", "(", Backtick>> \o id_column \o <<Backtick, " ", "=", " ", "'">> \o Format(id_value) \o <<"'", ")", ")">>

\* the loop of delete_id: one delete_where call per id, three server
\* interactions each; an exception ends the loop
RECURSIVE DeleteLoop(_, _, _, _)
DeleteLoop(ids, table, id_column, fault) ==
    IF ids = <<>> THEN [trace |-> <<>>, raised |-> FALSE]
    ELSE LET d == delete_where(IdCondition(id_column, ids[1]), table,
                               IF fault \in 1..3 THEN fault ELSE 0)
         IN  IF d.raised THEN d
             ELSE LET rest == DeleteLoop(Tail(ids), table, id_column,
                                         IF fault > 3 THEN fault - 3 ELSE 0)
                  IN  [trace |-> d.trace \o rest.trace, raised |-> rest.raised]

\* id_column: str = "id"
DefaultIdColumn == <<"i", "d">>

\* MySQL.delete_id
delete_id(id_values, table, id_column, fault) ==
    DeleteLoop(IdList(id_values), table, id_column, fault)

UpdateSql(condition, table, column, new_value) ==
    <<"U", "P", "D", "A", "T", "E", " ", Backtick>> \o table \o <<Backtick, " ", "S", "E", "T", " ", Backtick>> \o column \o <<Backtick, " ", "=", " ", "'">> \o new_value
        \o <<"'", " ", "W", "H", "E", "R", "E", " ">> \o condition

\* MySQL.update_where
update_where(condition, table, column, new_value, fault) ==
    Scope(<<UpdateSql(condition, table, column, new_value)>>, TRUE, fault)

\* MySQL.update_id
update_id(id_value, table, column, new_value, id_column, fault) ==
    update_where(<<Backtick>> \o id_column \o <<Backtick, " ", "=", " ", "'">> \o Format(id_value) \o <<"'">>,
                 table, column, new_value, fault)

\* ----------------------------------------------------------------- state
VARIABLES
    client,     \* the MySQL object the caller holds (NoObject before the first)
    self,       \* the attributes of the object the last __init__ call ran on
    conns,      \* connections checked out of the engine's pool and not returned
    call,       \* the method call that ran last, with its arguments
    log,        \* the record of that call: connect/execute/commit/close/fetchall
    outcome,    \* "ok": the call returned; "raised": it raised
    pc          \* "idle": the caller may call; "returned": a call has just ended

vars == <<client, self, conns, call, log, outcome, pc>>

NoEnv == [DB_HOST |-> PyNone, DB_USER |-> PyNone, DB_PASSWORD |-> PyNone]
NoFile == [exists |-> FALSE, content |-> <<>>]
NoFrame == [columns |-> <<>>, rows |-> <<>>]

NoCall ==
    [op |-> "none", dbname |-> <<>>, dbhost |-> <<>>, dbuser |-> <<>>,
     dbpassword |-> <<>>, env |-> NoEnv, drop |-> FALSE, table |-> <<>>,
     table_def |-> <<>>, query |-> <<>>, file |-> NoFile, df |-> NoFrame,
     truncate |-> FALSE, id_values |-> PyNone, id_column |-> <<>>,
     id_column_given |-> FALSE, condition |-> <<>>, column |-> <<>>,
     new_value |-> <<>>]

Opened(trace) == Cardinality({i \in 1..Len(trace) : trace[i].ev = "connect" /\ trace[i].ok})
Closed(trace) == Cardinality({i \in 1..Len(trace) : trace[i].ev \in {"close", "finalize"}})

Init ==
    /\ client = NoObject
    /\ self = NoObject
    /\ conns = 0
    /\ call = NoCall
    /\ log = <<>>
    /\ outcome = "none"
    /\ pc = "idle"

\* a method of the client has run: r is what it did
Finish(c, r) ==
    /\ call' = c
    /\ log' = r.trace
    /\ outcome' = (IF r.raised THEN "raised" ELSE "ok")
    /\ conns' = conns + Opened(r.trace) - Closed(r.trace)
    /\ pc' = "returned"
    /\ UNCHANGED <<client, self>>

\* m = MySQL(dbname, dbhost, dbuser, dbpassword).  The connection opened by
\* self.engine.connect() is bound to no name and never closed: it goes back
\* to the pool when the interpreter finalizes the object, which may be at once
\* (collected) or later (Collect).
Construct ==
    /\ pc = "idle"
    /\ conns < MaxConns
    /\ \E dbname \in DbNames, dbhost \in HostArgs, dbuser \in UserArgs,
          dbpassword \in PasswordArgs, env \in Envs, collected \in BOOLEAN :
          LET r == init(dbname, dbhost, dbuser, dbpassword, env)
              trace == r.trace \o (IF ~r.raised /\ collected
                                   THEN <<Ev("finalize", <<>>, TRUE)>> ELSE <<>>)
          IN  /\ self' = r.self
              /\ client' = (IF r.raised THEN client ELSE r.self)
              /\ call' = [NoCall EXCEPT !.op = "__init__", !.dbname = dbname,
                             !.dbhost = dbhost, !.dbuser = dbuser,
                             !.dbpassword = dbpassword, !.env = env]
              /\ log' = trace
              /\ outcome' = (IF r.raised THEN "raised" ELSE "ok")
              /\ conns' = conns + Opened(trace) - Closed(trace)
              /\ pc' = "returned"

\* the interpreter finalizes a connection object nothing refers to
Collect ==
    /\ pc = "idle"
    /\ conns > 0
    /\ conns' = conns - 1
    /\ UNCHANGED <<client, self, call, log, outcome, pc>>

CanCall == pc = "idle" /\ client.made

CreateDb ==
    /\ CanCall
    /\ \E dbname \in DbNames, drop \in BOOLEAN, fd \in 0..3, fc \in 0..3 :
          /\ (~drop => fd = 0)
          /\ Finish([NoCall EXCEPT !.op = "create_db", !.dbname = dbname, !.drop = drop],
                    create_db(dbname, drop, fd, fc))

CreateTable ==
    /\ CanCall
    /\ \E table_name \in Tables, table_def \in TableDefs, drop \in BOOLEAN,
          fd \in 0..3, fc \in 0..3 :
          /\ (~drop => fd = 0)
          /\ Finish([NoCall EXCEPT !.op = "create_table", !.table = table_name,
                        !.table_def = table_def, !.drop = drop],
                    create_table(table_name, table_def, drop, fd, fc))

ExecuteSql ==
    /\ CanCall
    /\ \E query \in Queries, fault \in 0..3 :
          Finish([NoCall EXCEPT !.op = "execute_sql", !.query = query],
                 execute_sql(query, fault))

ExecuteSqlFile ==
    /\ CanCall
    /\ \E file \in Files :
          \E fault \in 0..ScopeSteps(Len(FileCommands(file.content)), TRUE) :
              Finish([NoCall EXCEPT !.op = "execute_sql_file", !.file = file],
                     execute_sql_file(file, fault))

QueryTable ==
    /\ CanCall
    /\ \E table_name \in Tables, fault \in 0..3 :
          Finish([NoCall EXCEPT !.op = "query_table", !.table = table_name],
                 query_table(table_name, fault))

QuerySql ==
    /\ CanCall
    /\ \E sql \in Queries, fault \in 0..3 :
          Finish([NoCall EXCEPT !.op = "query_sql", !.query = sql],
                 query_sql(sql, fault))

InsertTable ==
    /\ CanCall
    /\ \E df_insert \in DataFrames, table_name \in Tables, truncate \in BOOLEAN :
          \E fault \in 0..(ScopeSteps(Len(df_insert.rows), TRUE)
                             + (IF truncate THEN 3 ELSE 0)) :
              Finish([NoCall EXCEPT !.op = "insert_table", !.df = df_insert,
                         !.table = table_name, !.truncate = truncate],
                     insert_table(df_insert, table_name, truncate, fault))

TruncateTable ==
    /\ CanCall
    /\ \E table \in Tables, fault \in 0..3 :
          Finish([NoCall EXCEPT !.op = "truncate_table", !.table = table],
                 truncate_table(table, fault))

\* id_column is given by the caller or left to its default
DeleteId ==
    /\ CanCall
    /\ \E id_values \in IdValues, table \in Tables, given \in BOOLEAN,
          column \in Columns :
          \E fault \in 0..(3 * Len(IdList(id_values))) :
              LET id_column == IF given THEN column ELSE DefaultIdColumn
              IN  /\ (~given => column = DefaultIdColumn)
                  /\ Finish([NoCall EXCEPT !.op = "delete_id",
                                 !.id_values = id_values, !.table = table,
                                 !.id_column = id_column,
                                 !.id_column_given = given],
                             delete_id(id_values, table, id_column, fault))

DeleteWhere ==
    /\ CanCall
    /\ \E condition \in Conditions, table \in Tables, fault \in 0..3 :
          Finish([NoCall EXCEPT !.op = "delete_where", !.condition = condition,
                     !.table = table],
                 delete_where(condition, table, fault))

UpdateWhere ==
    /\ CanCall
    /\ \E condition \in Conditions, table \in Tables, column \in Columns,
          new_value \in NewValues, fault \in 0..3 :
          Finish([NoCall EXCEPT !.op = "update_where", !.condition = condition,
                     !.table = table, !.column = column, !.new_value = new_value],
                 update_where(condition, table, column, new_value, fault))

UpdateId ==
    /\ CanCall
    /\ \E id_value \in IdScalars, table \in Tables, column \in Columns,
          new_value \in NewValues, given \in BOOLEAN, idc \in Columns,
          fault \in 0..3 :
          LET id_column == IF given THEN idc ELSE DefaultIdColumn
          IN  /\ (~given => idc = DefaultIdColumn)
              /\ Finish([NoCall EXCEPT !.op = "update_id", !.id_values = id_value,
                             !.table = table, !.column = column,
                             !.new_value = new_value, !.id_column = id_column,
                             !.id_column_given = given],
                         update_id(id_value, table, column, new_value, id_column,
                                   fault))

\* the caller has seen the result of the call and is ready for the next one
Return ==
    /\ pc = "returned"
    /\ pc' = "idle"
    /\ call' = NoCall
    /\ log' = <<>>
    /\ outcome' = "none"
    /\ self' = NoObject
    /\ UNCHANGED <<client, conns>>

Next ==
    \/ Construct
    \/ Collect
    \/ CreateDb
    \/ CreateTable
    \/ ExecuteSql
    \/ ExecuteSqlFile
    \/ QueryTable
    \/ QuerySql
    \/ InsertTable
    \/ TruncateTable
    \/ DeleteId
    \/ DeleteWhere
    \/ UpdateWhere
    \/ UpdateId
    \/ Return

Spec == Init /\ [][Next]_vars

\* ------------------------------------------------------------- properties
Contains(s, p) ==
    \E i \in 1..(Len(s) - Len(p) + 1) : SubSeq(s, i, i + Len(p) - 1) = p

EndsWith(s, p) == Len(s) >= Len(p) /\ SubSeq(s, Len(s) - Len(p) + 1, Len(s)) = p

Quoted(name) == <<Backtick>> \o name \o <<Backtick>>

IsExecute(e) == e.ev = "execute"

\* the statements the last call handed to conn.execute, in order
Statements == SelectSeq(log, IsExecute)

Keys(table_def) == {table_def[i][1] : i \in DOMAIN table_def}

\* the table and column names the call interpolates into statement sql
InterpolatedNames(c, sql) ==
    CASE c.op = "create_db" -> {c.dbname}
      [] c.op = "create_table" ->
            IF StartsWith(sql, <<"C", "R", "E", "A", "T", "E">>) THEN {c.table} \cup Keys(c.table_def)
            ELSE {c.table}
      [] c.op \in {"query_table", "truncate_table", "delete_where"} -> {c.table}
      [] c.op = "insert_table" ->
            IF StartsWith(sql, <<"I", "N", "S", "E", "R", "T">>) THEN {c.table} \cup Range(c.df.columns)
            ELSE {c.table}
      [] c.op = "delete_id" -> {c.table, c.id_column}
      [] c.op = "update_where" -> {c.table, c.column}
      [] c.op = "update_id" -> {c.table, c.column, c.id_column}
      [] OTHER -> {}

\* C1: every table name and column name that a client operation interpolates
\* into a statement it generates appears in that statement between backticks.
\* create_table breaks it: its CREATE TABLE statement carries the table name
\* and the column names bare.
C1_IdentifiersInBackticks ==
    pc = "returned" =>
        \A i \in DOMAIN Statements :
            \A name \in InterpolatedNames(call, Statements[i].sql) :
                Contains(Statements[i].sql, Quoted(name))

DefItemText(item) == item[1] \o <<" ">> \o item[2]

\* C2: for a column-definition mapping with N entries, N >= 0, the CREATE
\* TABLE statement of create_table ends in a parenthesised clause listing
\* exactly the N "name definition" items in the mapping's order, separated
\* by commas, with no trailing comma.  The empty mapping breaks it: the
\* slice that drops the trailing comma then drops the opening parenthesis.
C2_ColumnClause ==
    (pc = "returned" /\ call.op = "create_table") =>
        \A i \in DOMAIN Statements :
            StartsWith(Statements[i].sql, <<"C", "R", "E", "A", "T", "E">>) =>
                EndsWith(Statements[i].sql,
                         <<" ", "(">> \o Join(<<",">>, [k \in DOMAIN call.table_def |->
                                                 DefItemText(call.table_def[k])])
                             \o <<")", ";">>)

IsInsert(e) == e.ev = "execute" /\ StartsWith(e.sql, <<"I", "N", "S", "E", "R", "T">>)

\* the INSERT statements the last call handed to conn.execute, in row order
Inserts == SelectSeq(log, IsInsert)

HasQuote(s) == \E i \in DOMAIN s : s[i] = "'"

\* every single quote doubled
RECURSIVE Doubled(_)
Doubled(s) ==
    IF s = <<>> THEN <<>>
    ELSE (IF s[1] = "'" THEN <<"'", "'">> ELSE <<s[1]>>) \o Doubled(Tail(s))

\* every pair of single quotes made one
RECURSIVE Undoubled(_)
Undoubled(s) ==
    IF s = <<>> THEN <<>>
    ELSE IF StartsWith(s, <<"'", "'">>) THEN <<"'">> \o Undoubled(Tail(Tail(s)))
    ELSE <<s[1]>> \o Undoubled(Tail(s))

\* the text between the parentheses of VALUES (...) in an INSERT statement
ValuesText(sql) ==
    LET k == CHOOSE i \in 1..Len(sql) : SubSeq(sql, i, i + 8) = <<" ", "V", "A", "L", "U", "E", "S", " ", "(">>
    IN  SubSeq(sql, k + 9, Len(sql) - 2)

IsSentinel(cell) == Format(cell) \in {<<"n", "a", "n">>, <<"N", "o", "n", "e">>}

\* the literal the specification gives a cell: NULL for a missing value,
\* else the text with its quotes doubled, between single quotes
CellLiteral(cell) ==
    IF IsSentinel(cell) THEN <<"N", "U", "L", "L">>
    ELSE <<"'">> \o Doubled(Format(cell)) \o <<"'">>

\* C3: for a string value containing a single quote, the literal that
\* insert_table puts at the value's position of the executed INSERT statement
\* is the value with every quote doubled between one pair of single quotes,
\* and un-doubling its body gives the value back; also for values with nan
\* or None next to a quote.  The value x'nan breaks it: the replacement of
\* 'nan' by NULL runs over the whole statement and eats part of the literal.
C3_QuotesDoubled ==
    (pc = "returned" /\ call.op = "insert_table") =>
        \A i \in DOMAIN Inserts :
            LET row == call.df.rows[i]
                text == ValuesText(Inserts[i].sql)
            IN  \A j \in DOMAIN row :
                    (row[j].kind = "str" /\ HasQuote(row[j].s)) =>
                        \E a \in 0..Len(text), b \in 0..Len(text) :
                            /\ a + 2 <= b
                            /\ Cardinality({k \in 1..a : text[k] = ","}) >= j - 1
                            /\ text[a + 1] = "'" /\ text[b] = "'"
                            /\ (a > 0 => text[a] = ",")
                            /\ (b < Len(text) => text[b + 1] = ",")
                            /\ SubSeq(text, a + 2, b - 1) = Doubled(row[j].s)
                            /\ Undoubled(SubSeq(text, a + 2, b - 1)) = row[j].s

\* C4: for a cell whose stringified value is nan or None, the executed INSERT
\* statement carries the bare keyword NULL at that position and the literals
\* of the other cells of the row are as they were.  A row holding a missing
\* value next to the string x'nan breaks it (the defect of C3): the other
\* cell's literal is rewritten too.
C4_NullForMissing ==
    (pc = "returned" /\ call.op = "insert_table") =>
        \A i \in DOMAIN Inserts :
            LET row == call.df.rows[i]
            IN  (\E j \in DOMAIN row : IsSentinel(row[j])) =>
                    ValuesText(Inserts[i].sql)
                        = Join(<<",">>, [j \in DOMAIN row |-> CellLiteral(row[j])])

\* C5: with truncate=false a successful insert_table call on a data frame of
\* R rows executes exactly R INSERT statements, the i-th built from row i and
\* naming all columns in the frame's order, on one connection, and commits
\* once, after the last INSERT and not between rows.
C5_OneInsertPerRow ==
    (pc = "returned" /\ call.op = "insert_table" /\ ~call.truncate /\ outcome = "ok") =>
        LET R == Len(call.df.rows)
            header == <<"I", "N", "S", "E", "R", "T", " ", "I", "N", "T", "O", " ">> \o Quoted(call.table) \o <<" ", "(">>
                          \o Join(<<",">>, [j \in DOMAIN call.df.columns |->
                                              Quoted(call.df.columns[j])])
                          \o <<")", " ", "V", "A", "L", "U", "E", "S", " ", "(">>
        IN  /\ Len(log) = R + 3
            /\ log[1] = Ev("connect", <<>>, TRUE)
            /\ \A i \in 1..R :
                   /\ log[i + 1].ev = "execute" /\ log[i + 1].ok
                   /\ StartsWith(log[i + 1].sql, header)
                   /\ log[i + 1].sql
                          = InsertStatement(call.table, call.df.columns, call.df.rows[i])
            /\ log[R + 2] = Ev("commit", <<>>, TRUE)
            /\ log[R + 3] = Ev("close", <<>>, TRUE)

C5_Witness ==
    /\ pc = "returned" /\ call.op = "insert_table" /\ ~call.truncate
    /\ outcome = "ok"
    /\ Len(call.df.rows) = 2
    /\ call.df.rows[1] # call.df.rows[2]
    /\ Len(Inserts) = 2

ConnectIndexes == {i \in DOMAIN log : log[i].ev = "connect"}

\* C6: in create_db and create_table with drop=true a failure of the DROP step
\* is suppressed and the CREATE scope still runs; a failure of the CREATE step
\* always reaches the caller, with drop true or false, with the DROP step
\* failed or not.
C6_DropBestEffort ==
    (pc = "returned" /\ call.op \in {"create_db", "create_table"}) =>
        LET k == CHOOSE i \in ConnectIndexes : \A j \in ConnectIndexes : j <= i
            createFailed == \E i \in k..Len(log) : ~log[i].ok
        IN  /\ Cardinality(ConnectIndexes) = (IF call.drop THEN 2 ELSE 1)
            /\ log[k].ok =>
                   /\ log[k + 1].ev = "execute"
                   /\ StartsWith(log[k + 1].sql, <<"C", "R", "E", "A", "T", "E", " ">>)
            /\ \A i \in 1..(k - 1) :
                   log[i].ev = "execute" => StartsWith(log[i].sql, <<"D", "R", "O", "P", " ">>)
            /\ (outcome = "raised") <=> createFailed

C6_Witness ==
    /\ pc = "returned" /\ call.op \in {"create_db", "create_table"} /\ call.drop
    /\ outcome = "ok"
    /\ \E i, j \in DOMAIN log :
           /\ i < j
           /\ log[i].ev = "execute" /\ StartsWith(log[i].sql, <<"D", "R", "O", "P", " ">>) /\ ~log[i].ok
           /\ log[j].ev = "execute" /\ StartsWith(log[j].sql, <<"C", "R", "E", "A", "T", "E", " ">>) /\ log[j].ok

SemiIndexes(s) == {i \in DOMAIN s : s[i] = ";"}

\* the index of the k-th ';' of s
NthSemi(s, k) ==
    CHOOSE i \in SemiIndexes(s) : Cardinality({j \in SemiIndexes(s) : j < i}) = k - 1

\* the k-th fragment of s when cut at every ';'
Fragment(s, k) ==
    LET n == Cardinality(SemiIndexes(s))
        from == IF k = 1 THEN 1 ELSE NthSemi(s, k - 1) + 1
        to == IF k = n + 1 THEN Len(s) ELSE NthSemi(s, k) - 1
    IN  SubSeq(s, from, to)

NotBlankChar(c) == c \notin {"\n", "\t"}

AtLeastFive(s) == Len(s) >= 5

\* the fragments the specification has execute_sql_file execute
ExpectedCommands(s) ==
    SelectSeq([k \in 1..(Cardinality(SemiIndexes(s)) + 1) |->
                   SelectSeq(Fragment(s, k), NotBlankChar)],
              AtLeastFive)

\* C7: execute_sql_file cuts the text at every ';', removes the newline and
\* tab characters of each fragment, executes exactly the fragments left with
\* at least 5 characters, in file order on one connection, and commits once
\* after the last; a file of two statements with a blank line between them
\* gives exactly two executed statements.
C7_FileCommands ==
    (pc = "returned" /\ call.op = "execute_sql_file" /\ outcome = "ok") =>
        LET expected == ExpectedCommands(call.file.content)
            n == Len(expected)
        IN  /\ call.file.exists
            /\ log = <<Ev("connect", <<>>, TRUE)>>
                         \o [i \in 1..n |-> Ev("execute", expected[i], TRUE)]
                         \o <<Ev("commit", <<>>, TRUE), Ev("close", <<>>, TRUE)>>
            /\ call.file.content = TwoStatementFile =>
                   /\ Len(Statements) = 2
                   /\ Statements[1].sql = <<"I", "N", "S", "E", "R", "T", " ", "I", "N", "T", "O", " ", "t", " ", "V", "A", "L", "U", "E", "S", " ", "(", "1", ")">>
                   /\ Statements[2].sql = <<"I", "N", "S", "E", "R", "T", " ", "I", "N", "T", "O", " ", "t", " ", "V", "A", "L", "U", "E", "S", " ", "(", "2", ")">>

C7_Witness ==
    /\ pc = "returned" /\ call.op = "execute_sql_file" /\ outcome = "ok"
    /\ call.file.content = TwoStatementFile
    /\ Len(Statements) = 2

\* the text of an identifier value inside a condition
IdText(v) ==
    CASE v = PyInt(10) -> <<"1", "0">>
      [] v = PyInt(2) -> <<"2">>
      [] v.kind = "str" -> v.s

\* C8: delete_id given a sequence of k identifiers issues exactly k DELETE
\* statements, one per identifier in order, each on the condition that
\* id_column (id when not given) equals the identifier as a quoted literal;
\* given one scalar, a string of any length included, it issues exactly one.
C8_OneDeletePerId ==
    (pc = "returned" /\ call.op = "delete_id" /\ outcome = "ok") =>
        LET ids == IF call.id_values.kind = "list" THEN call.id_values.items
                   ELSE <<call.id_values>>
            column == IF call.id_column_given THEN call.id_column ELSE <<"i", "d">>
            sql(j) == <<"D", "E", "L", "E", "T", "E", " ", "F", "R", "O", "M", " ">> \o Quoted(call.table) \o <<" ", "W", "H", "E", "R", "E", " ", "(", "(">>
                          \o Quoted(column) \o <<" ", "=", " ", "'">> \o IdText(ids[j]) \o <<"'", ")", ")">>
        IN  /\ Len(Statements) = Len(ids)
            /\ Len(log) = 4 * Len(ids)
            /\ \A j \in DOMAIN ids :
                   /\ log[4 * j - 3] = Ev("connect", <<>>, TRUE)
                   /\ log[4 * j - 2] = Ev("execute", sql(j), TRUE)
                   /\ log[4 * j - 1] = Ev("commit", <<>>, TRUE)
                   /\ log[4 * j] = Ev("close", <<>>, TRUE)

C8_Witness ==
    /\ pc = "returned" /\ call.op = "delete_id" /\ outcome = "ok"
    /\ call.id_values.kind = "list"
    /\ Len(call.id_values.items) = 2
    /\ call.id_values.items[1].kind = "str"
    /\ Len(call.id_values.items[1].s) > 1
    /\ Len(Statements) = 2

\* C9: every connection an operation acquired, construction included, has
\* been released when the operation returns or raises.  The constructor
\* breaks it: the connection it opens to test the target is never closed, and
\* is back in the pool only once the interpreter has finalized it.
C9_ConnectionsReleased ==
    pc = "returned" => Opened(log) = Closed(log)

\* C10: construction validates the connection eagerly: with the target
\* unreachable or the credentials rejected (as with no arguments and no
\* DB_HOST / DB_PASSWORD in the environment) the constructor raises, the
\* caller gets no object and self.dbname is not set; dbname is set only after
\* the connection check has succeeded.
C10_EagerValidation ==
    /\ client.made => client.has_dbname
    /\ (pc = "returned" /\ call.op = "__init__") =>
           LET host == IF call.dbhost # <<>> THEN PyStr(call.dbhost)
                       ELSE call.env.DB_HOST
               password == IF call.dbpassword # <<>> THEN PyStr(call.dbpassword)
                           ELSE call.env.DB_PASSWORD
               user == IF call.dbuser # <<>> THEN PyStr(call.dbuser)
                       ELSE IF call.env.DB_USER # PyNone THEN call.env.DB_USER
                       ELSE PyStr(<<"r", "o", "o", "t">>)
               reachable == host.kind = "str" /\ host.s \in ServerHosts
               accepted == /\ user.kind = "str" /\ password.kind = "str"
                           /\ <<user.s, password.s>> \in ServerAccounts
           IN  /\ (~reachable \/ ~accepted) => outcome = "raised"
               /\ outcome = "raised" => (~self.has_dbname /\ client # self)
               /\ self.has_dbname =>
                      /\ log[1].ev = "connect" /\ log[1].ok
                      /\ self.dbname = call.dbname
                      /\ client = self

C10_Witness ==
    /\ pc = "returned" /\ call.op = "__init__"
    /\ call.dbname = <<>> /\ call.dbhost = <<>>
    /\ call.dbuser = <<>> /\ call.dbpassword = <<>>
    /\ call.env.DB_HOST = PyNone /\ call.env.DB_PASSWORD = PyNone
    /\ outcome = "raised"
    /\ ~self.has_dbname

====
